---- MODULE Spec2Model ----
(***************************************************************************)
(* Model of src/server.py: the MCP API server template.                    *)
(*                                                                         *)
(* The process runs the __main__ block: parse_args() builds the            *)
(* ServerSettings from the command line and the environment, serve()       *)
(* builds the APIConfig and registers the two request handlers list_tools  *)
(* and call_tool, and the session then answers requests until the stream   *)
(* closes, an interrupt arrives or a fault leaves serve().                 *)
(*                                                                         *)
(* Strings that the code only formats into messages are kept symbolic: a   *)
(* text block records which message template of the code produced it       *)
(* (category), the tool name and status it interpolates, and its details.  *)
(***************************************************************************)
EXTENDS Integers, Sequences, FiniteSets, TLC

VARIABLES
    pc,           \* position of the __main__ block
    argv,         \* the command line, as argparse sees it
    environ,      \* the process environment (MCP_* variables)
    dotenv,       \* the contents of a .env file in the working directory
    table,        \* the base_urls dictionary written in APIConfig.__init__
    settings,     \* the ServerSettings returned by parse_args, or NoSettings
    api_config,   \* the APIConfig built by serve, or NoConfig
    exit_status,  \* the process exit status, NoExit while running
    exit_cause,   \* why the process ended
    last_call,    \* the last call_tool invocation and what it did
    last_list,    \* the outcome of the last list_tools invocation
    ncalls        \* requests answered so far in the session

vars == <<pc, argv, environ, dotenv, table, settings, api_config,
          exit_status, exit_cause, last_call, last_list, ncalls>>

MaxCalls == 2

NoValue == "<absent>"
\* No exit status yet: the process is running.
NoExit == 0 - 1

(***************************************************************************)
(* Finite mappings (Python dicts) as functions over a set of keys.         *)
(***************************************************************************)
EmptyMap == [k \in {} |-> NoValue]

Get(m, k) == IF k \in DOMAIN m THEN m[k] ELSE NoValue

Truthy(v) == v # NoValue /\ v # ""

(***************************************************************************)
(* ServerSettings (pydantic BaseSettings, env_prefix "MCP_").              *)
(***************************************************************************)
Config == [env_prefix |-> "MCP_"]

FieldDefaults == [debug |-> "False"]

\* env_prefix + field name (matched case-insensitively).
EnvName == [API_KEY |-> "MCP_API_KEY", debug |-> "MCP_DEBUG"]

\* The environment source: field f is read from the variable MCP_<f>.
EnvSource(env) ==
    [f \in {g \in DOMAIN EnvName : EnvName[g] \in DOMAIN env} |-> env[EnvName[f]]]

\* The dotenv source reads the file Config.env_file names; without that key
\* no file is read.
DotEnvSource(file) ==
    IF "env_file" \in DOMAIN Config
    THEN [f \in {g \in DOMAIN EnvName : EnvName[g] \in DOMAIN file} |-> file[EnvName[f]]]
    ELSE EmptyMap

\* init kwargs > environment > dotenv > field default; the first source that
\* holds the field gives its raw value, the empty string included.
RawField(f, init, env, file) ==
    IF f \in DOMAIN init THEN init[f]
    ELSE IF f \in DOMAIN EnvSource(env) THEN EnvSource(env)[f]
    ELSE IF f \in DOMAIN DotEnvSource(file) THEN DotEnvSource(file)[f]
    ELSE Get(FieldDefaults, f)

BoolTrue == {"True", "true", "1"}
BoolFalse == {"False", "false", "0"}

\* ServerSettings(**init): API_KEY is a required str, debug a bool.
ServerSettings(init, env, file) ==
    LET key == RawField("API_KEY", init, env, file)
        dbg == RawField("debug", init, env, file)
    IN  IF key = NoValue \/ dbg \notin (BoolTrue \cup BoolFalse)
        THEN [raised |-> "ValidationError", API_KEY |-> NoValue, debug |-> FALSE]
        ELSE [raised |-> "none", API_KEY |-> key, debug |-> dbg \in BoolTrue]

NoSettings == [raised |-> "unset", API_KEY |-> NoValue, debug |-> FALSE]

(***************************************************************************)
(* parse_args                                                              *)
(***************************************************************************)
\* settings_data: only the flags that were given (and are truthy) are passed.
SettingsData(args) ==
    [f \in (IF Truthy(args.API_KEY) THEN {"API_KEY"} ELSE {})
           \cup (IF args.debug THEN {"debug"} ELSE {})
       |-> IF f = "API_KEY" THEN args.API_KEY ELSE "True"]

\* Variant: the explicit check after construction is left out.
CredentialMissing_Never(s) == FALSE

\* The explicit check after construction.
CredentialMissing(s) == ~Truthy(s.API_KEY)

\* parse_args: [exit, cause, settings].  parser.parse_args() leaves the
\* process with status 2 on a command line it rejects and with status 0
\* after printing the help text.
parse_args(args, env, file) ==
    IF args.usage = "error"
    THEN [exit |-> 2, cause |-> "usage_error", settings |-> NoSettings]
    ELSE IF args.usage = "help"
    THEN [exit |-> 0, cause |-> "help", settings |-> NoSettings]
    ELSE LET s == ServerSettings(SettingsData(args), env, file)
         IN  IF s.raised # "none"
             THEN [exit |-> 1, cause |-> "config_failure", settings |-> NoSettings]
             ELSE IF CredentialMissing(s)
             THEN [exit |-> 1, cause |-> "config_failure", settings |-> NoSettings]
             ELSE [exit |-> NoExit, cause |-> "none", settings |-> s]

(***************************************************************************)
(* APIConfig                                                               *)
(***************************************************************************)
\* The dictionary APIConfig.__init__ writes.
ShippedBaseUrls ==
    [default |-> "https://api.example.com/v1",
     another_endpoint |-> "https://another.api.example.com/v2"]

APIConfig(s, urls) == [API_KEY |-> s.API_KEY, base_urls |-> urls]

NoConfig == [API_KEY |-> NoValue, base_urls |-> EmptyMap]

\* Variant: no fallback to the "default" entry.
get_base_url_NoFallback(cfg, endpoint_name) == Get(cfg.base_urls, endpoint_name)

\* dict.get(endpoint_name) when truthy, else dict.get("default") (None when
\* that is absent too).
get_base_url(cfg, endpoint_name) ==
    LET url == Get(cfg.base_urls, endpoint_name)
    IN  IF Truthy(url) THEN url ELSE Get(cfg.base_urls, "default")

(***************************************************************************)
(* Names the module defines                                                *)
(***************************************************************************)
\* class ToolNames: its attributes.
ToolNames == [SEARCH |-> "search", GET_USER |-> "get_user"]

\* The request model classes bound at module level.
ModuleModels == {"ExampleTool1RequestModel", "ExampleTool2RequestModel"}

(***************************************************************************)
(* Request models and their validation (pydantic BaseModel)                *)
(***************************************************************************)
ExampleTool1RequestModel ==
    << [field |-> "param1", type |-> "str", required |-> TRUE],
       [field |-> "optional_param", type |-> "int", required |-> FALSE] >>

ExampleTool2RequestModel ==
    << [field |-> "user_id", type |-> "str", required |-> TRUE],
       [field |-> "include_details", type |-> "bool", required |-> FALSE] >>

\* Whether an argument value is accepted for a field of type t (lax mode).
Accepts(t, v) ==
    CASE t = "str"  -> v.type = "str"
      [] t = "int"  -> v.type \in {"int", "bool"} \/ (v.type = "str" /\ v.lit = "42")
      [] t = "bool" -> v.type = "bool" \/ (v.type = "int" /\ v.lit \in {"0", "1"})
      [] OTHER      -> FALSE

\* The message of the violation of one field, "" when there is none.
FieldError(f, arguments) ==
    IF f.field \notin DOMAIN arguments
    THEN IF f.required THEN "Field required" ELSE ""
    ELSE IF Accepts(f.type, arguments[f.field]) THEN "" ELSE "Input should be a valid value"

RECURSIVE ErrorsFrom(_, _, _)
\* e.errors() rendered "<field>: <msg>", in field-declaration order.
ErrorsFrom(model, arguments, i) ==
    IF i > Len(model) THEN << >>
    ELSE LET msg == FieldError(model[i], arguments)
             rest == ErrorsFrom(model, arguments, i + 1)
         IN  IF msg = "" THEN rest ELSE << <<model[i].field, msg>> >> \o rest

Validate(model, arguments) == ErrorsFrom(model, arguments, 1)

(***************************************************************************)
(* Text blocks                                                             *)
(***************************************************************************)
\* number is the number the message interpolates: the HTTP status, or the
\* count of validation errors.
TextContent(category, name, number, detail) ==
    [type |-> "text",
     text |-> [category |-> category, name |-> name, number |-> number,
               detail |-> detail]]

\* What one run of the body of call_tool did.
Returned(blocks, validated, outbound) ==
    [exc |-> "none", status |-> 0, result |-> blocks,
     validated |-> validated, outbound |-> outbound]

Raised(exc, status, validated, outbound) ==
    [exc |-> exc, status |-> status, result |-> << >>,
     validated |-> validated, outbound |-> outbound]

(***************************************************************************)
(* call_tool                                                               *)
(***************************************************************************)
\* async with session.get(...) as response: raise_for_status(), json(),
\* json.dumps.  One request is issued.
OutboundCall(name, upstream) ==
    IF upstream.kind = "fault"
    THEN Raised("ClientConnectionError", 0, TRUE, 1)
    ELSE IF upstream.status >= 400
    THEN Raised("ClientResponseError", upstream.status, TRUE, 1)
    ELSE IF ~upstream.json
    THEN Raised("ClientResponseError", upstream.status, TRUE, 1)
    ELSE Returned(<< TextContent("Success", name, upstream.status, <<upstream.body>>) >>,
                  TRUE, 1)

\* The body of a tool's case: validate, then call the API.
ToolCase(model, name, arguments, upstream) ==
    LET errs == Validate(model, arguments)
    IN  IF errs # << >>
        THEN Returned(<< TextContent("InvalidArgument", name, Len(errs), errs) >>,
                      TRUE, 0)
        ELSE OutboundCall(name, upstream)

\* match name: the value patterns are looked up in ToolNames when the match
\* runs, in order; a missing attribute raises AttributeError.
MatchName(name, arguments, upstream) ==
    IF "EXAMPLE_TOOL_1" \notin DOMAIN ToolNames
    THEN Raised("AttributeError", 0, FALSE, 0)
    ELSE IF name = ToolNames["EXAMPLE_TOOL_1"]
    THEN ToolCase(ExampleTool1RequestModel, name, arguments, upstream)
    ELSE IF "EXAMPLE_TOOL_2" \notin DOMAIN ToolNames
    THEN Raised("AttributeError", 0, FALSE, 0)
    ELSE IF name = ToolNames["EXAMPLE_TOOL_2"]
    THEN ToolCase(ExampleTool2RequestModel, name, arguments, upstream)
    ELSE Returned(<< TextContent("NotFound", name, 0, << >>) >>, FALSE, 0)

\* The try block: the base URL first, then the match.
TryBody(cfg, name, arguments, upstream) ==
    IF ~Truthy(get_base_url(cfg, name))
    THEN Returned(<< TextContent("Configuration", name, 0, << >>) >>, FALSE, 0)
    ELSE MatchName(name, arguments, upstream)

\* Variant: only ClientResponseError is caught.
ExceptClauses_NoCatchAll(b, name) ==
    IF b.exc = "ClientResponseError"
    THEN [b EXCEPT !.exc = "none",
                   !.result = << TextContent("UpstreamError", name, b.status, << >>) >>]
    ELSE b

\* The except clauses: ClientResponseError, then Exception.
ExceptClauses(b, name) ==
    IF b.exc = "none" THEN b
    ELSE IF b.exc = "ClientResponseError"
    THEN [b EXCEPT !.exc = "none",
                   !.result = << TextContent("UpstreamError", name, b.status, << >>) >>]
    ELSE [b EXCEPT !.exc = "none", !.status = 0,
                   !.result = << TextContent("Internal", name, 0, << >>) >>]

call_tool(cfg, name, arguments, upstream) ==
    ExceptClauses(TryBody(cfg, name, arguments, upstream), name)

(***************************************************************************)
(* list_tools                                                              *)
(***************************************************************************)
\* The Tool(...) displays of the returned list: the ToolNames attribute and
\* the request model each one names.
ToolDisplays ==
    << [attr |-> "SEARCH", model |-> "SearchRequestModel"],
       [attr |-> "GET_USER", model |-> "UserRequestModel"] >>

\* Building display i: AttributeError for a missing ToolNames attribute,
\* NameError for a model name the module does not bind.
DisplayFault(d) ==
    IF d.attr \notin DOMAIN ToolNames THEN "AttributeError"
    ELSE IF d.model \notin ModuleModels THEN "NameError"
    ELSE "none"

list_tools ==
    LET bad == {i \in DOMAIN ToolDisplays : DisplayFault(ToolDisplays[i]) # "none"}
    IN  IF bad # {}
        THEN [raised |-> DisplayFault(ToolDisplays[CHOOSE i \in bad : \A j \in bad : i <= j]),
              tools |-> << >>]
        ELSE [raised |-> "none",
              tools |-> [i \in DOMAIN ToolDisplays |->
                           [name |-> ToolNames[ToolDisplays[i].attr],
                            inputSchema |-> ToolDisplays[i].model]]]

(***************************************************************************)
(* The inputs of a run                                                     *)
(***************************************************************************)
Maps(keys, vals) == UNION {[d -> vals] : d \in SUBSET keys}

ArgvSet ==
    [API_KEY : {NoValue, "", "flag-key"}, debug : BOOLEAN,
     usage : {"ok", "error", "help"}]

EnvironSet ==
    {e \in Maps({"MCP_API_KEY", "MCP_DEBUG"}, {"", "env-key", "true", "false"}) :
        /\ "MCP_API_KEY" \in DOMAIN e => e["MCP_API_KEY"] \in {"", "env-key"}
        /\ "MCP_DEBUG" \in DOMAIN e => e["MCP_DEBUG"] \in {"", "true", "false"}}

DotenvSet ==
    {e \in Maps({"MCP_API_KEY", "MCP_DEBUG"}, {"file-key", "true"}) :
        /\ "MCP_API_KEY" \in DOMAIN e => e["MCP_API_KEY"] = "file-key"
        /\ "MCP_DEBUG" \in DOMAIN e => e["MCP_DEBUG"] = "true"}

\* Base URL tables a deployment of the template may write: any subset of the
\* keys, each entry empty or the URL of that key.
UrlOf == [default |-> "https://api.example.com/v1",
          search |-> "https://api.example.com/search",
          get_user |-> "https://api.example.com/users-api"]

BaseUrlTables ==
    {ShippedBaseUrls} \cup
    {t \in Maps(DOMAIN UrlOf, {""} \cup {UrlOf[k] : k \in DOMAIN UrlOf}) :
        \A k \in DOMAIN t : t[k] \in {"", UrlOf[k]}}

ToolNameSet == {"search", "get_user", "another_endpoint", "unknown_tool"}

StrV(lit) == [type |-> "str", lit |-> lit]
IntV(lit) == [type |-> "int", lit |-> lit]
BoolV(lit) == [type |-> "bool", lit |-> lit]

ArgumentSet ==
    { EmptyMap,
      [param1 |-> StrV("q")],
      [param1 |-> StrV("q"), optional_param |-> StrV("many")],
      [param1 |-> IntV("7")],
      [user_id |-> StrV("42")],
      [user_id |-> StrV("42"), include_details |-> BoolV("true")],
      [include_details |-> IntV("7")] }

UpstreamSet ==
    { [kind |-> "response", status |-> 200, json |-> TRUE, body |-> "{name: Ada}"],
      [kind |-> "response", status |-> 200, json |-> FALSE, body |-> "<html>"],
      [kind |-> "response", status |-> 404, json |-> TRUE, body |-> "{}"],
      [kind |-> "response", status |-> 503, json |-> FALSE, body |-> "<html>"],
      [kind |-> "fault", status |-> 0, json |-> FALSE, body |-> ""] }

NoCall ==
    [made |-> FALSE, name |-> NoValue, arguments |-> EmptyMap,
     upstream |-> [kind |-> "fault", status |-> 0, json |-> FALSE, body |-> ""],
     out |-> Returned(<< >>, FALSE, 0)]

NoList == [made |-> FALSE, raised |-> "none", tools |-> << >>]

(***************************************************************************)
(* The process                                                             *)
(***************************************************************************)
InitWith(tables) ==
    /\ pc = "boot"
    /\ argv \in ArgvSet
    /\ environ \in EnvironSet
    /\ dotenv \in DotenvSet
    /\ table \in tables
    /\ settings = NoSettings
    /\ api_config = NoConfig
    /\ exit_status = NoExit
    /\ exit_cause = "none"
    /\ last_call = NoCall
    /\ last_list = NoList
    /\ ncalls = 0

\* The program as written: APIConfig.__init__ writes ShippedBaseUrls.
Init == InitWith({ShippedBaseUrls})

\* The program with the base_urls dictionary edited, as the template asks.
InitTables ==
    /\ InitWith(BaseUrlTables)
    /\ dotenv = EmptyMap
    /\ "MCP_DEBUG" \notin DOMAIN environ
    /\ ~argv.debug

Exit(status, cause) ==
    /\ pc' = "exited"
    /\ exit_status' = status
    /\ exit_cause' = cause

\* Lines 367-368, then the try block is entered.
EnterTry ==
    /\ pc = "boot"
    /\ pc' = "startup"
    /\ UNCHANGED <<argv, environ, dotenv, table, settings, api_config,
                   exit_status, exit_cause, last_call, last_list, ncalls>>

\* A KeyboardInterrupt before the try block is caught by no clause: the
\* interpreter ends the process by SIGINT (status 128 + 2).
InterruptUncaught ==
    /\ pc = "boot"
    /\ Exit(130, "interrupt")
    /\ UNCHANGED <<argv, environ, dotenv, table, settings, api_config,
                   last_call, last_list, ncalls>>

\* settings = parse_args(); a sys.exit inside it passes both except clauses.
ParseArgs ==
    /\ pc = "startup"
    /\ LET r == parse_args(argv, environ, dotenv)
       IN  IF r.exit = NoExit
           THEN /\ settings' = r.settings
                /\ pc' = "configured"
                /\ UNCHANGED <<exit_status, exit_cause>>
           ELSE /\ Exit(r.exit, r.cause)
                /\ UNCHANGED settings
    /\ UNCHANGED <<argv, environ, dotenv, table, api_config, last_call,
                   last_list, ncalls>>

\* anyio.run(serve, settings): serve builds the APIConfig, registers the
\* handlers and runs the server on the stdio streams.
StartServe ==
    /\ pc = "configured"
    /\ api_config' = APIConfig(settings, table)
    /\ pc' = "serving"
    /\ UNCHANGED <<argv, environ, dotenv, table, settings, exit_status,
                   exit_cause, last_call, last_list, ncalls>>

\* except KeyboardInterrupt: sys.exit(0).
KeyboardInterrupt ==
    /\ pc \in {"startup", "configured", "serving"}
    /\ Exit(0, "interrupt")
    /\ UNCHANGED <<argv, environ, dotenv, table, settings, api_config,
                   last_call, last_list, ncalls>>

\* The stream closes, serve returns and the main block runs off its end.
StreamClosed ==
    /\ pc = "serving"
    /\ Exit(0, "graceful")
    /\ UNCHANGED <<argv, environ, dotenv, table, settings, api_config,
                   last_call, last_list, ncalls>>

\* except Exception: an exception left serve; sys.exit(1).
ServeFault ==
    /\ pc = "serving"
    /\ Exit(1, "runtime_fault")
    /\ UNCHANGED <<argv, environ, dotenv, table, settings, api_config,
                   last_call, last_list, ncalls>>

\* A tools/list request reaches list_tools.
ListToolsRequest ==
    /\ pc = "serving"
    /\ ncalls < MaxCalls
    /\ last_list' = [made |-> TRUE, raised |-> list_tools.raised,
                     tools |-> list_tools.tools]
    /\ ncalls' = ncalls + 1
    /\ UNCHANGED <<pc, argv, environ, dotenv, table, settings, api_config,
                   exit_status, exit_cause, last_call>>

\* A tools/call request reaches call_tool; upstream is what the external API
\* would answer to a request of this invocation.
CallToolRequest ==
    /\ pc = "serving"
    /\ ncalls < MaxCalls
    /\ \E name \in ToolNameSet, arguments \in ArgumentSet, upstream \in UpstreamSet :
          last_call' = [made |-> TRUE, name |-> name, arguments |-> arguments,
                        upstream |-> upstream,
                        out |-> call_tool(api_config, name, arguments, upstream)]
    /\ ncalls' = ncalls + 1
    /\ UNCHANGED <<pc, argv, environ, dotenv, table, settings, api_config,
                   exit_status, exit_cause, last_list>>

Next ==
    \/ EnterTry
    \/ InterruptUncaught
    \/ ParseArgs
    \/ StartServe
    \/ KeyboardInterrupt
    \/ StreamClosed
    \/ ServeFault
    \/ ListToolsRequest
    \/ CallToolRequest

Spec == Init /\ [][Next]_vars

SpecTables == InitTables /\ [][Next]_vars

(***************************************************************************)
(* Properties                                                              *)
(***************************************************************************)
\* The tools the server advertises: the values of ToolNames.
RegisteredTools == {ToolNames[a] : a \in DOMAIN ToolNames}

\* The input schema of each advertised tool: "search" is served by the
\* /search case, "get_user" by the /users/{user_id} case.
InputSchemaOf ==
    [search |-> ExampleTool1RequestModel, get_user |-> ExampleTool2RequestModel]

\* The last invocation returned exactly one text block of this category.
ReturnedOne(category) ==
    /\ last_call.out.exc = "none"
    /\ Len(last_call.out.result) = 1
    /\ last_call.out.result[1].type = "text"
    /\ last_call.out.result[1].text.category = category

HasBaseUrl(name) == Truthy(get_base_url(api_config, name))

ValidCall ==
    /\ last_call.made
    /\ last_call.name \in RegisteredTools
    /\ HasBaseUrl(last_call.name)
    /\ Validate(InputSchemaOf[last_call.name], last_call.arguments) = << >>

\* C1: a call of a name that is no registered tool returns the NotFound
\* failure, whatever the base URL table and the arguments, without
\* validating arguments and without an outbound call.
C1_UnknownToolNotFound ==
    (last_call.made /\ last_call.name \notin RegisteredTools)
        => /\ ReturnedOne("NotFound")
           /\ ~last_call.out.validated
           /\ last_call.out.outbound = 0

\* C2: a call of a registered tool with a base URL and arguments that
\* violate its schema returns the InvalidArgument failure and issues no
\* outbound request.
C2_InvalidArgumentsShortCircuit ==
    ( /\ last_call.made
      /\ last_call.name \in RegisteredTools
      /\ HasBaseUrl(last_call.name)
      /\ Validate(InputSchemaOf[last_call.name], last_call.arguments) # << >> )
        => /\ ReturnedOne("InvalidArgument")
           /\ last_call.out.outbound = 0

\* C3: a call of an advertised tool with valid arguments that the upstream
\* API answers with a 2xx status returns Success: exactly one text block
\* holding the serialized response.
C3_SuccessOn2xx ==
    ( /\ ValidCall
      /\ last_call.upstream.kind = "response"
      /\ last_call.upstream.status \in 200..299
      /\ last_call.upstream.json )
        => /\ ReturnedOne("Success")
           /\ last_call.out.result[1].text.detail = <<last_call.upstream.body>>

\* C4: a call of a registered tool with valid arguments that the upstream
\* API answers with a non-2xx status S returns the UpstreamError failure
\* carrying S.
C4_UpstreamErrorOnNon2xx ==
    ( /\ ValidCall
      /\ last_call.upstream.kind = "response"
      /\ last_call.upstream.status \notin 200..299 )
        => /\ ReturnedOne("UpstreamError")
           /\ last_call.out.result[1].text.number = last_call.upstream.status

\* C5: every invocation of call_tool returns exactly one result, a list of
\* one text block, and no exception leaves call_tool: the session goes on.
C5_CallToolAlwaysReturns ==
    last_call.made
        => /\ last_call.out.exc = "none"
           /\ Len(last_call.out.result) = 1
           /\ last_call.out.result[1].type = "text"
           /\ exit_cause = "none" => pc = "serving"

\* C5 witness: the body of call_tool raised an unexpected exception and the
\* invocation still returned its one block.
C5_Witness ==
    /\ last_call.made
    /\ TryBody(api_config, last_call.name, last_call.arguments,
               last_call.upstream).exc = "AttributeError"
    /\ ReturnedOne("Internal")
    /\ pc = "serving"

\* A name call_tool routes to a tool's case rather than to the wildcard.
Routed(name) ==
    LET b == MatchName(name, EmptyMap, last_call.upstream)
    IN  b.exc = "none" /\ b.validated

\* C6: list_tools returns its list without fault, the same on every call;
\* every listed name is routed by call_tool to a handler, and every routed
\* name is listed exactly once.
C6_ListingMatchesDispatcher ==
    last_list.made
        => /\ last_list.raised = "none"
           /\ last_list.tools = list_tools.tools
           /\ \A i \in DOMAIN last_list.tools : Routed(last_list.tools[i].name)
           /\ \A n \in ToolNameSet :
                 Routed(n) =>
                    Cardinality({i \in DOMAIN last_list.tools :
                                    last_list.tools[i].name = n}) = 1

\* The first non-empty value of a sequence of source values.
RECURSIVE FirstNonEmpty(_)
FirstNonEmpty(vals) ==
    IF vals = << >> THEN NoValue
    ELSE IF Truthy(vals[1]) THEN vals[1]
    ELSE FirstNonEmpty(Tail(vals))

\* The credential by the stated order: flag, environment, .env file (no
\* default exists).
StatedCredential ==
    FirstNonEmpty(<< argv.API_KEY, Get(environ, "MCP_API_KEY"),
                     Get(dotenv, "MCP_API_KEY") >>)

\* The debug setting by the stated order: flag, environment, .env file,
\* default.
StatedDebug ==
    FirstNonEmpty(<< IF argv.debug THEN "True" ELSE NoValue,
                     Get(environ, "MCP_DEBUG"), Get(dotenv, "MCP_DEBUG"),
                     "False" >>)

\* C7: when the credential is empty or missing in every source, serve is
\* never entered, and a start-up that gets as far as resolving the settings
\* ends with the configuration failure, status 1.
C7_NoCredentialNoServing ==
    ~Truthy(StatedCredential)
        => /\ pc \notin {"configured", "serving"}
           /\ settings = NoSettings
           /\ api_config = NoConfig
           /\ exit_cause \notin {"graceful", "runtime_fault"}
           /\ (pc = "exited" /\ argv.usage = "ok" /\ exit_cause # "interrupt")
                 => (exit_cause = "config_failure" /\ exit_status = 1)

\* C7 witness: the credential is an empty environment variable and nothing
\* else; the process exited with status 1.
C7_Witness ==
    /\ ~Truthy(StatedCredential)
    /\ Get(environ, "MCP_API_KEY") = ""
    /\ pc = "exited"
    /\ exit_cause = "config_failure"
    /\ exit_status = 1

\* C8: the exit status is 0 after a graceful shutdown or an interrupt, 1
\* after a start-up configuration failure or a fault out of serve, and
\* nothing else.
C8_ExitStatus ==
    pc = "exited"
        => /\ exit_cause \in {"graceful", "interrupt"} => exit_status = 0
           /\ exit_cause \in {"config_failure", "runtime_fault"} => exit_status = 1
           /\ exit_status \in {0, 1}

\* C9: each setting of the ServerSettings parse_args returns is the first
\* non-empty value in the order flag, environment variable, .env file,
\* default.
C9_SettingsPrecedence ==
    settings # NoSettings
        => /\ settings.API_KEY = StatedCredential
           /\ settings.debug = (StatedDebug \in BoolTrue)

\* C10: the base URL of a registered tool is its own entry when that is
\* non-empty, else the "default" entry; with neither entry, call_tool returns
\* the Configuration failure without validating and without outbound call.
C10_EffectiveBaseUrl ==
    (last_call.made /\ last_call.name \in RegisteredTools)
        => LET own == Get(table, last_call.name)
               dflt == Get(table, "default")
               eff == IF Truthy(own) THEN own ELSE dflt
           IN  /\ get_base_url(api_config, last_call.name) = eff
               /\ ReturnedOne("Configuration") <=> ~Truthy(eff)
               /\ (own = NoValue /\ dflt = NoValue)
                     => /\ ReturnedOne("Configuration")
                        /\ ~last_call.out.validated
                        /\ last_call.out.outbound = 0

\* C10 witness: a registered tool called with neither its own entry nor a
\* "default" entry in the table.
C10_Witness ==
    /\ last_call.made
    /\ last_call.name \in RegisteredTools
    /\ last_call.name \notin DOMAIN table
    /\ "default" \notin DOMAIN table
    /\ ReturnedOne("Configuration")

====
